---------------------------- MODULE Spec2Model ----------------------------
(***************************************************************************)
(* The worker pool of pool.go: New, WithPreAlloc, run, newWorker, Free and *)
(* Schedule, as a system of goroutines.                                    *)
(*                                                                         *)
(* Goroutines: the caller of New, the dispatcher (run), one goroutine per  *)
(* worker started by newWorker, one goroutine per Schedule call and the    *)
(* caller of Free.                                                         *)
(*                                                                         *)
(* Channels are modelled by what a channel operation of the Go runtime     *)
(* does.  A goroutine that reaches a select polls its cases once: when one *)
(* or more can proceed it takes one of them (any one: the choice is        *)
(* pseudo-random), otherwise it parks on every channel of the select.  A   *)
(* parked goroutine is resumed by the operation of another goroutine that  *)
(* completes one of its cases, and resumes in that case:                   *)
(*   - a send on the unbuffered channel tasks completes only together with *)
(*     a receive, so one side is parked and the other one arrives;         *)
(*   - close(quit) resumes every goroutine parked in a select on quit, in  *)
(*     the quit case;                                                      *)
(*   - a receive from the full buffered channel active, with a sender      *)
(*     parked on it, puts the sender's element into the buffer and resumes *)
(*     the sender in its send case.                                        *)
(***************************************************************************)
EXTENDS Integers, Sequences, FiniteSets, TLC

\* pool.go:28
defaultCapacity == 100
\* pool.go:29
maxCapacity == 1000

\* Largest capacity argument of New under Spec.
MaxCapArg == 2
\* Number of Schedule calls, each with a task of its own.
NTasks == 2
\* Workers run may start beyond cap(p.active) plus one per task (a task that
\* panics frees a token; so does a worker that leaves after the close).
ExtraSpawns == 0

\* Largest capacity argument of New under FairSpec.
MaxCapLive == 1

\* Under SpecPre, how many of the workers get to run; the other workers stay
\* at their select, never scheduled.
PreActing == 2

Capacities == 0..MaxCapArg
LiveCapacities == 0..MaxCapLive
\* The most workers a run under Spec starts: by run, or by New's loop.
MaxWorkers == MaxCapArg + NTasks + ExtraSpawns + 1
Tasks == 1..NTasks
\* Option lists of New under Spec: no option, WithPreAlloc(true).
OptLists == {<<>>, <<TRUE>>}
\* Option lists of New under SpecNew: also WithPreAlloc(false), and two options.
NewOptLists == OptLists \cup {<<FALSE>>, <<TRUE, FALSE>>, <<FALSE, TRUE>>}
\* Capacity arguments of New under SpecNew: around the two clamps and the
\* default.
NewCapacities == {-1, 0, 1, 99, 100, 101, 1000, 1001}
\* Capacity arguments of New under SpecIds: a small one, and the two around
\* the number of workers that pre-allocation spawns.
IdCapacities == {1, defaultCapacity, defaultCapacity + 1}
\* Arguments of New under SpecPre: New(1), and New(100, WithPreAlloc(true)),
\* the call with which the pre-allocation loop ends and run has no room.
PreArgs == {<<1, <<>>>>, <<defaultCapacity, <<TRUE>>>>}
\* The goroutines that call Free.
FreeCallers == {1, 2}
FirstCaller == {1}

VARIABLES
    capArg,     \* New's argument capacity
    optsArg,    \* New's argument opts: the arguments of WithPreAlloc, in order
    newPc,      \* New: "call", "spawn", "send", "go", "returned"
    i,          \* New: the loop variable of the pre-allocation loop
    pool,       \* the fields p.preAlloc and p.capacity
    activeCap,  \* cap(p.active)
    active,     \* len(p.active): the tokens held
    quit,       \* p.quit is closed
    wg,         \* the counter of p.wg
    runPc,      \* run: "none", "select", "parked", "spawn", "done"
    id,         \* run: the local variable id
    workers,    \* the worker goroutines, in the order newWorker started them
    sched,      \* the Schedule calls, one per task
    freePc,     \* Free, per caller: "idle", "wait" (before p.wg.Wait()),
                \* "passed" (Wait found the counter at zero), "parked" (in
                \* Wait), "woken" (released by the last Done), "returned",
                \* "closepanic" and "waitpanic" (the call panicked)
    crashed     \* an unrecovered panic has ended the program

vars == <<capArg, optsArg, newPc, i, pool, activeCap, active, quit, wg,
          runPc, id, workers, sched, freePc, crashed>>

newVars == <<capArg, optsArg, newPc, i, pool, activeCap>>

-----------------------------------------------------------------------------
\* New, lines 33-39: the two clamps of the capacity argument.
ClampCapacity(capacity) ==
    LET c1 == IF capacity < 0 THEN defaultCapacity ELSE capacity
    IN  IF c1 > maxCapacity THEN defaultCapacity ELSE c1

\* New, line 42: the capacity field of the new Pool.
PoolCapacity(capacity) == defaultCapacity

\* WithPreAlloc(b), applied to the pool p.
WithPreAlloc(b, p) == [p EXCEPT !.preAlloc = b]

\* New, lines 49-51: the options are applied in order.
RECURSIVE ApplyOpts(_, _)
ApplyOpts(p, opts) ==
    IF opts = <<>> THEN p
    ELSE ApplyOpts(WithPreAlloc(Head(opts), p), Tail(opts))

\* A worker goroutine as newWorker starts it.
\*   pc: "select"  at the select of the loop, not yet polled
\*       "parked"  parked in the select, on quit and on tasks
\*       "exec"    running task `task`
\*       "quit"    in case <-p.quit, before <-p.active
\*       "recover" in the deferred function after a panic, before <-p.active
\*       "done"    in the deferred function, before p.wg.Done()
\*       "exited"  the goroutine has ended
\*   fault: the worker ends by a panic of its task
\*   late:  newWorker ran when quit was already closed
NewWorkerRec(wid) ==
    [id |-> wid, pc |-> "select", task |-> 0, fault |-> FALSE, late |-> quit]

\* newWorker(id): p.wg.Add(1) and the go statement.
newWorker(wid) ==
    /\ wg' = wg + 1
    /\ workers' = Append(workers, NewWorkerRec(wid))

Workers == DOMAIN workers
WorkersAt(pcs) == {w \in Workers : workers[w].pc \in pcs}
\* The workers that are spawned and have not ended.
Live == {w \in Workers : workers[w].pc # "exited"}
ParkedWorkers == WorkersAt({"parked"})
ParkedSenders == {t \in Tasks : sched[t].pc = "parked"}

-----------------------------------------------------------------------------
\* A Schedule call that has not been made.
\*   pc: "idle", "select" (at the select, not yet polled), "parked",
\*       "sent" (its send is done, by its own poll or by a worker's receive
\*       that made the caller runnable; before return nil),
\*       "quit" (in case <-p.quit, by its own poll or resumed by the close;
\*       before return ErrWorkerPoolFreed),
\*       "nil" (returned nil), "freed" (returned ErrWorkerPoolFreed)
\*   panics: the task panics when it is run
\*   quitAtCall, freedAtCall: quit was closed / Free had returned at the call
\*   afterFault: a task had panicked, with quit open, before the call
\*   started: how many times a worker has called the task
\*   by: the workers that received the task
\*   lateRecv: quit was closed when a worker received the task
\*   finished: "no", "returned", "panicked"
NoCall ==
    [pc |-> "idle", panics |-> FALSE, quitAtCall |-> FALSE,
     freedAtCall |-> FALSE, afterFault |-> FALSE, started |-> 0,
     by |-> {}, lateRecv |-> FALSE, finished |-> "no"]

InitRest ==
    /\ newPc = "call"
    /\ i = 0
    /\ pool = [preAlloc |-> FALSE, capacity |-> 0]
    /\ activeCap = 0
    /\ active = 0
    /\ quit = FALSE
    /\ wg = 0
    /\ runPc = "none"
    /\ id = 0
    /\ workers = <<>>
    /\ sched = [t \in Tasks |-> NoCall]
    /\ freePc = [f \in FreeCallers |-> "idle"]
    /\ crashed = FALSE

\* Before New is called, with its arguments chosen.
Init ==
    /\ capArg \in Capacities
    /\ optsArg \in OptLists
    /\ InitRest

InitLive ==
    /\ capArg \in LiveCapacities
    /\ optsArg \in OptLists
    /\ InitRest

InitIds ==
    /\ capArg \in IdCapacities
    /\ optsArg \in OptLists
    /\ InitRest

InitPre ==
    /\ \E a \in PreArgs : capArg = a[1] /\ optsArg = a[2]
    /\ InitRest

InitNew ==
    /\ capArg \in NewCapacities
    /\ optsArg \in NewOptLists
    /\ InitRest

-----------------------------------------------------------------------------
(* New *)

\* Lines 33-55: clamp, build the pool, apply the options, test p.preAlloc and
\* the loop condition for i = 1.
NewCreate ==
    /\ ~crashed
    /\ newPc = "call"
    /\ LET p == ApplyOpts([preAlloc |-> FALSE,
                           capacity |-> PoolCapacity(capArg)], optsArg)
       IN  /\ pool' = p
           /\ newPc' = IF p.preAlloc /\ 1 <= p.capacity THEN "spawn" ELSE "go"
    /\ activeCap' = ClampCapacity(capArg)
    /\ i' = 1
    /\ UNCHANGED <<capArg, optsArg, active, quit, wg, runPc, id, workers,
                   sched, freePc, crashed>>

\* Line 57: p.newWorker(i).
NewPreSpawn ==
    /\ ~crashed
    /\ newPc = "spawn"
    /\ newWorker(i)
    /\ newPc' = "send"
    /\ UNCHANGED <<capArg, optsArg, i, pool, activeCap, active, quit, runPc,
                   id, sched, freePc, crashed>>

\* NewPreSend that sends nothing to p.active.
NewPreSendNoToken ==
    /\ ~crashed
    /\ newPc = "send"
    /\ i' = i + 1
    /\ newPc' = IF i + 1 <= pool.capacity THEN "spawn" ELSE "go"
    /\ UNCHANGED <<capArg, optsArg, pool, activeCap, active, quit, wg, runPc,
                   id, workers, sched, freePc, crashed>>

\* Line 58 and the loop step of line 56: p.active <- struct{}{} blocks while
\* the buffer is full; then i++ and the loop condition.
NewPreSend ==
    /\ ~crashed
    /\ newPc = "send"
    /\ active < activeCap
    /\ active' = active + 1
    /\ i' = i + 1
    /\ newPc' = IF i + 1 <= pool.capacity THEN "spawn" ELSE "go"
    /\ UNCHANGED <<capArg, optsArg, pool, activeCap, quit, wg, runPc, id,
                   workers, sched, freePc, crashed>>

\* Lines 62-64: go p.run() and return p.
NewGoRun ==
    /\ ~crashed
    /\ newPc = "go"
    /\ newPc' = "returned"
    /\ runPc' = "select"
    /\ UNCHANGED <<capArg, optsArg, i, pool, activeCap, active, quit, wg, id,
                   workers, sched, freePc, crashed>>

New == NewCreate \/ NewPreSpawn \/ NewPreSend \/ NewGoRun

-----------------------------------------------------------------------------
(* run: the dispatcher *)

\* Line 78: the select takes case <-p.quit and run returns.
RunSelectQuit ==
    /\ ~crashed
    /\ runPc = "select"
    /\ quit
    /\ runPc' = "done"
    /\ UNCHANGED <<newVars, active, quit, wg, id, workers, sched, freePc,
                   crashed>>

\* RunSelectSend whose send finds room in a channel that is full.
RunSelectSendOffByOne ==
    /\ ~crashed
    /\ runPc = "select"
    /\ active <= activeCap
    /\ id < activeCap + NTasks + ExtraSpawns
    /\ active' = active + 1
    /\ runPc' = "spawn"
    /\ UNCHANGED <<newVars, quit, wg, id, workers, sched, freePc, crashed>>

\* RunSelectSend that goes on to spawn without having sent to p.active.
RunSelectSendNoToken ==
    /\ ~crashed
    /\ runPc = "select"
    /\ active < activeCap
    /\ id < activeCap + NTasks + ExtraSpawns
    /\ runPc' = "spawn"
    /\ UNCHANGED <<newVars, active, quit, wg, id, workers, sched, freePc,
                   crashed>>

\* Line 80: the select takes case p.active <- struct{}{}: the buffer has room.
RunSelectSend ==
    /\ ~crashed
    /\ runPc = "select"
    /\ active < activeCap
    /\ id < activeCap + NTasks + ExtraSpawns
    /\ active' = active + 1
    /\ runPc' = "spawn"
    /\ UNCHANGED <<newVars, quit, wg, id, workers, sched, freePc, crashed>>

\* Lines 77-80: no case can proceed, run parks on quit and on active.
RunPark ==
    /\ ~crashed
    /\ runPc = "select"
    /\ ~quit
    /\ active >= activeCap
    /\ runPc' = "parked"
    /\ UNCHANGED <<newVars, active, quit, wg, id, workers, sched, freePc,
                   crashed>>

\* Lines 81-82: id++ and p.newWorker(id).
RunSpawn ==
    /\ ~crashed
    /\ runPc = "spawn"
    /\ id' = id + 1
    /\ newWorker(id + 1)
    /\ runPc' = "select"
    /\ UNCHANGED <<newVars, active, quit, sched, freePc, crashed>>

run == RunSelectQuit \/ RunSelectSend \/ RunPark \/ RunSpawn

-----------------------------------------------------------------------------
(* The worker goroutine of newWorker *)

\* Handoff with the sender left in the channel's queue: the task stays on
\* offer after a worker has taken it.
HandoffSenderStays(w, t) ==
    /\ workers' = [workers EXCEPT ![w].pc = "exec", ![w].task = t]
    /\ sched' = [sched EXCEPT ![t].started = @ + 1,
                              ![t].by = @ \cup {w},
                              ![t].lateRecv = quit]

\* The handoff of task t to worker w over the unbuffered channel tasks: the
\* send of Schedule is done and the worker holds t, prints and calls t().
\* The side that was parked is made runnable; the caller of Schedule returns
\* nil in a step of its own.
Handoff(w, t) ==
    /\ workers' = [workers EXCEPT ![w].pc = "exec", ![w].task = t]
    /\ sched' = [sched EXCEPT ![t].pc = "sent",
                              ![t].started = @ + 1,
                              ![t].by = @ \cup {w},
                              ![t].lateRecv = quit]

\* Line 102: the select takes case <-p.quit.
WorkerSelectQuit(w) ==
    /\ ~crashed
    /\ w \in Workers
    /\ workers[w].pc = "select"
    /\ quit
    /\ workers' = [workers EXCEPT ![w].pc = "quit"]
    /\ UNCHANGED <<newVars, active, quit, wg, runPc, id, sched, freePc,
                   crashed>>

\* Line 106: the select takes case t := <-p.tasks from a parked sender.
WorkerSelectRecv(w, t) ==
    /\ ~crashed
    /\ w \in Workers
    /\ workers[w].pc = "select"
    /\ t \in ParkedSenders
    /\ Handoff(w, t)
    /\ UNCHANGED <<newVars, active, quit, wg, runPc, id, freePc, crashed>>

\* WorkerPark without the test of quit: the worker waits for a task although
\* quit is closed.
WorkerParkAfterClose(w) ==
    /\ ~crashed
    /\ w \in Workers
    /\ workers[w].pc = "select"
    /\ ParkedSenders = {}
    /\ workers' = [workers EXCEPT ![w].pc = "parked"]
    /\ UNCHANGED <<newVars, active, quit, wg, runPc, id, sched, freePc,
                   crashed>>

\* Lines 101-106: no case can proceed, the worker parks on quit and on tasks.
WorkerPark(w) ==
    /\ ~crashed
    /\ w \in Workers
    /\ workers[w].pc = "select"
    /\ ~quit
    /\ ParkedSenders = {}
    /\ workers' = [workers EXCEPT ![w].pc = "parked"]
    /\ UNCHANGED <<newVars, active, quit, wg, runPc, id, sched, freePc,
                   crashed>>

\* TaskReturn with a worker that leaves its loop after one task, keeping its
\* token.
TaskReturnLeaves(w) ==
    /\ ~crashed
    /\ w \in Workers
    /\ workers[w].pc = "exec"
    /\ ~sched[workers[w].task].panics
    /\ workers' = [workers EXCEPT ![w].pc = "done", ![w].task = 0]
    /\ sched' = [sched EXCEPT ![workers[w].task].finished = "returned"]
    /\ UNCHANGED <<newVars, active, quit, wg, runPc, id, freePc, crashed>>

\* Line 108: t() returns; the worker is back at the select.
TaskReturn(w) ==
    /\ ~crashed
    /\ w \in Workers
    /\ workers[w].pc = "exec"
    /\ ~sched[workers[w].task].panics
    /\ workers' = [workers EXCEPT ![w].pc = "select", ![w].task = 0]
    /\ sched' = [sched EXCEPT ![workers[w].task].finished = "returned"]
    /\ UNCHANGED <<newVars, active, quit, wg, runPc, id, freePc, crashed>>

\* TaskPanic with a deferred function that does not receive from p.active.
TaskPanicKeepsToken(w) ==
    /\ ~crashed
    /\ w \in Workers
    /\ workers[w].pc = "exec"
    /\ sched[workers[w].task].panics
    /\ workers' = [workers EXCEPT ![w].pc = "done", ![w].task = 0,
                                  ![w].fault = TRUE]
    /\ sched' = [sched EXCEPT ![workers[w].task].finished = "panicked"]
    /\ UNCHANGED <<newVars, active, quit, wg, runPc, id, freePc, crashed>>

\* Line 108, lines 90-92: t() panics; the deferred function recovers it.
TaskPanic(w) ==
    /\ ~crashed
    /\ w \in Workers
    /\ workers[w].pc = "exec"
    /\ sched[workers[w].task].panics
    /\ workers' = [workers EXCEPT ![w].pc = "recover", ![w].task = 0,
                                  ![w].fault = TRUE]
    /\ sched' = [sched EXCEPT ![workers[w].task].finished = "panicked"]
    /\ UNCHANGED <<newVars, active, quit, wg, runPc, id, freePc, crashed>>

\* WorkerRelease that takes nothing out of p.active.
WorkerReleaseNoToken(w) ==
    /\ ~crashed
    /\ w \in Workers
    /\ workers[w].pc \in {"quit", "recover"}
    /\ workers' = [workers EXCEPT ![w].pc = "done"]
    /\ UNCHANGED <<newVars, active, quit, wg, runPc, id, sched, freePc,
                   crashed>>

\* Lines 93 and 104: <-p.active blocks while the buffer is empty.  With run
\* parked on the full channel, its element takes the place of the one
\* received and run resumes in its send case.
WorkerRelease(w) ==
    /\ ~crashed
    /\ w \in Workers
    /\ workers[w].pc \in {"quit", "recover"}
    /\ active > 0
    /\ IF runPc = "parked"
       THEN /\ runPc' = "spawn"
            /\ active' = active
       ELSE /\ runPc' = runPc
            /\ active' = active - 1
    /\ workers' = [workers EXCEPT ![w].pc = "done"]
    /\ UNCHANGED <<newVars, quit, wg, id, sched, freePc, crashed>>

\* Line 95: p.wg.Done(); the Done that brings the counter to zero releases
\* the callers parked in p.wg.Wait().
WorkerDone(w) ==
    /\ ~crashed
    /\ w \in Workers
    /\ workers[w].pc = "done"
    /\ wg' = wg - 1
    /\ workers' = [workers EXCEPT ![w].pc = "exited"]
    /\ freePc' = [f \in FreeCallers |->
                    IF wg = 1 /\ freePc[f] = "parked" THEN "woken"
                    ELSE freePc[f]]
    /\ UNCHANGED <<newVars, active, quit, runPc, id, sched, crashed>>

worker(w) ==
    \/ WorkerSelectQuit(w)
    \/ \E t \in Tasks : WorkerSelectRecv(w, t)
    \/ WorkerPark(w)
    \/ TaskReturn(w)
    \/ TaskPanic(w)
    \/ WorkerRelease(w)
    \/ WorkerDone(w)

-----------------------------------------------------------------------------
(* Schedule *)

\* Some task has panicked.
FaultSeen == \E w \in Workers : workers[w].fault

\* A call Schedule(t) by a goroutine that holds the pool New returned; the
\* task either returns or panics when run.  The calls are numbered in the
\* order in which they are made.
ScheduleCall(t, panics) ==
    /\ ~crashed
    /\ newPc = "returned"
    /\ sched[t].pc = "idle"
    /\ t > 1 => sched[t - 1].pc # "idle"
    /\ sched' = [sched EXCEPT ![t].pc = "select",
                              ![t].panics = panics,
                              ![t].quitAtCall = quit,
                              ![t].freedAtCall = (freePc[1] = "returned"),
                              ![t].afterFault = FaultSeen /\ ~quit]
    /\ UNCHANGED <<newVars, active, quit, wg, runPc, id, workers, freePc,
                   crashed>>

\* Line 122: the select takes case <-p.quit.
ScheduleSelectQuit(t) ==
    /\ ~crashed
    /\ sched[t].pc = "select"
    /\ quit
    /\ sched' = [sched EXCEPT ![t].pc = "quit"]
    /\ UNCHANGED <<newVars, active, quit, wg, runPc, id, workers, freePc,
                   crashed>>

\* Line 124: the select takes case p.tasks <- t to a parked worker.
ScheduleSelectSend(t, w) ==
    /\ ~crashed
    /\ sched[t].pc = "select"
    /\ w \in ParkedWorkers
    /\ Handoff(w, t)
    /\ UNCHANGED <<newVars, active, quit, wg, runPc, id, freePc, crashed>>

\* Lines 121-124: no case can proceed, the caller parks on quit and on tasks.
SchedulePark(t) ==
    /\ ~crashed
    /\ sched[t].pc = "select"
    /\ ~quit
    /\ ParkedWorkers = {}
    /\ sched' = [sched EXCEPT ![t].pc = "parked"]
    /\ UNCHANGED <<newVars, active, quit, wg, runPc, id, workers, freePc,
                   crashed>>

\* Line 123: return ErrWorkerPoolFreed.
ScheduleReturnFreed(t) ==
    /\ ~crashed
    /\ sched[t].pc = "quit"
    /\ sched' = [sched EXCEPT ![t].pc = "freed"]
    /\ UNCHANGED <<newVars, active, quit, wg, runPc, id, workers, freePc,
                   crashed>>

\* Line 125: return nil.
ScheduleReturnNil(t) ==
    /\ ~crashed
    /\ sched[t].pc = "sent"
    /\ sched' = [sched EXCEPT ![t].pc = "nil"]
    /\ UNCHANGED <<newVars, active, quit, wg, runPc, id, workers, freePc,
                   crashed>>

Schedule(t) ==
    \/ \E panics \in BOOLEAN : ScheduleCall(t, panics)
    \/ ScheduleSelectQuit(t)
    \/ \E w \in 1..MaxWorkers : ScheduleSelectSend(t, w)
    \/ SchedulePark(t)
    \/ ScheduleReturnFreed(t)
    \/ ScheduleReturnNil(t)

-----------------------------------------------------------------------------
(* Free *)

\* CloseQuit that leaves the parked workers waiting for a task.
CloseQuitWorkersStay ==
    /\ quit' = TRUE
    /\ workers' = workers
    /\ sched' = [t \in Tasks |->
                   IF sched[t].pc = "parked"
                   THEN [sched[t] EXCEPT !.pc = "quit"]
                   ELSE sched[t]]
    /\ runPc' = IF runPc = "parked" THEN "done" ELSE runPc

\* close(p.quit) on the open channel: every goroutine parked in a select on
\* quit is made runnable in its quit case: a worker at line 103, a Schedule
\* call at line 123, run at line 79 (it returns).
CloseQuit ==
    /\ quit' = TRUE
    /\ workers' = [w \in Workers |->
                     IF workers[w].pc = "parked"
                     THEN [workers[w] EXCEPT !.pc = "quit"]
                     ELSE workers[w]]
    /\ sched' = [t \in Tasks |->
                   IF sched[t].pc = "parked"
                   THEN [sched[t] EXCEPT !.pc = "quit"]
                   ELSE sched[t]]
    /\ runPc' = IF runPc = "parked" THEN "done" ELSE runPc

\* Line 115: close(p.quit); the close of a closed channel panics, and the
\* panic, which nothing recovers, ends the program.
FreeClose(f) ==
    /\ ~crashed
    /\ newPc = "returned"
    /\ freePc[f] = "idle"
    /\ IF quit
       THEN /\ crashed' = TRUE
            /\ freePc' = [freePc EXCEPT ![f] = "closepanic"]
            /\ UNCHANGED <<quit, workers, sched, runPc>>
       ELSE /\ CloseQuit
            /\ freePc' = [freePc EXCEPT ![f] = "wait"]
            /\ UNCHANGED crashed
    /\ UNCHANGED <<newVars, active, wg, id>>

\* FreeWait that does not wait for the counter.
FreeWaitNoPark(f) ==
    /\ ~crashed
    /\ freePc[f] = "wait"
    /\ freePc' = [freePc EXCEPT ![f] = "passed"]
    /\ UNCHANGED <<newVars, active, quit, wg, runPc, id, workers, sched,
                   crashed>>

\* Line 116: p.wg.Wait() returns at once when the counter is zero ("passed"),
\* and parks the caller otherwise.
FreeWait(f) ==
    /\ ~crashed
    /\ freePc[f] = "wait"
    /\ freePc' = [freePc EXCEPT ![f] = IF wg = 0 THEN "passed" ELSE "parked"]
    /\ UNCHANGED <<newVars, active, quit, wg, runPc, id, workers, sched,
                   crashed>>

\* Lines 116-118: the rest of p.wg.Wait(), the print and the return.  A
\* caller that was parked and is released by the last Done ("woken") reads
\* the WaitGroup again when it runs: with the counter no longer zero (run has
\* called newWorker since) Wait panics, "WaitGroup is reused before previous
\* Wait has returned"; nothing recovers the panic and the program ends.
FreeReturn(f) ==
    /\ ~crashed
    /\ freePc[f] \in {"passed", "woken"}
    /\ IF freePc[f] = "woken" /\ wg # 0
       THEN /\ crashed' = TRUE
            /\ freePc' = [freePc EXCEPT ![f] = "waitpanic"]
       ELSE /\ crashed' = crashed
            /\ freePc' = [freePc EXCEPT ![f] = "returned"]
    /\ UNCHANGED <<newVars, active, quit, wg, runPc, id, workers, sched>>

Free(f) == FreeClose(f) \/ FreeWait(f) \/ FreeReturn(f)

-----------------------------------------------------------------------------
Next ==
    \/ New
    \/ run
    \/ \E w \in 1..MaxWorkers : worker(w)
    \/ \E t \in Tasks : Schedule(t)
    \/ \E f \in FirstCaller : Free(f)

Spec == Init /\ [][Next]_vars

\* The program with a second caller of Free, sequential with the first one or
\* concurrent with it.
NextReFree ==
    \/ New
    \/ run
    \/ \E w \in 1..MaxWorkers : worker(w)
    \/ \E t \in Tasks : Schedule(t)
    \/ \E f \in FreeCallers : Free(f)

SpecReFree == InitLive /\ [][NextReFree]_vars

\* New and the dispatcher alone, with the workers idle at their select: the
\* ids that the pre-allocation loop and run hand to newWorker.
NextIds ==
    \/ New
    \/ RunSelectSend
    \/ RunPark
    \/ RunSpawn

SpecIds == InitIds /\ [][NextIds]_vars

\* The program with a pre-allocation that ends: the first PreActing workers
\* are scheduled, the others are not.
NextPre ==
    \/ New
    \/ run
    \/ \E w \in 1..PreActing : worker(w)
    \/ \E t \in Tasks : Schedule(t)
    \/ \E f \in FirstCaller : Free(f)

SpecPre == InitPre /\ [][NextPre]_vars

\* The scheduler runs every goroutine that can take a step; a task ends; the
\* pseudo-random choice of a select does not avoid a case forever.  The
\* calls of Schedule and of Free are the callers' choice.
Fairness ==
    /\ WF_vars(New)
    /\ WF_vars(run)
    /\ SF_vars(RunSelectQuit)
    /\ \A w \in 1..MaxWorkers : WF_vars(worker(w))
    /\ \A t \in Tasks :
         WF_vars(ScheduleSelectQuit(t) \/ SchedulePark(t)
                 \/ ScheduleReturnFreed(t) \/ ScheduleReturnNil(t)
                 \/ \E w \in 1..MaxWorkers : ScheduleSelectSend(t, w))
    /\ \A f \in FirstCaller : WF_vars(FreeWait(f) \/ FreeReturn(f))

FairSpec == InitLive /\ [][Next]_vars /\ Fairness

\* New alone, over capacity arguments around the clamps and the default.
NextNew == New

SpecNew == InitNew /\ [][NextNew]_vars

TypeOK ==
    /\ newPc \in {"call", "spawn", "send", "go", "returned"}
    /\ runPc \in {"none", "select", "parked", "spawn", "done"}
    /\ active \in 0..activeCap
    /\ wg \in Nat
    /\ id \in 0..(activeCap + NTasks + ExtraSpawns)
    /\ \A w \in Workers :
         workers[w].pc \in {"select", "parked", "exec", "quit", "recover",
                            "done", "exited"}
    /\ \A t \in Tasks :
         sched[t].pc \in {"idle", "select", "parked", "sent", "quit", "nil",
                          "freed"}
    /\ \A f \in FreeCallers :
         freePc[f] \in {"idle", "wait", "passed", "parked", "woken",
                        "returned", "closepanic", "waitpanic"}

-----------------------------------------------------------------------------
(* The claims *)

\* C1: for a capacity argument in 1..1000, with or without pre-allocation,
\* the number of live workers (spawned, not yet ended) never exceeds the
\* capacity argument.
C1_LiveWithinCapacity ==
    capArg \in 1..maxCapacity => Cardinality(Live) <= capArg

\* C2: a task whose Schedule call returns nil (its send is done, or it has
\* returned nil) was received by exactly one worker and is run exactly once
\* (it is running or has ended); a task whose call returns
\* ErrWorkerPoolFreed, or still waits, was never run; no task is run twice.
C2_ExactlyOnce ==
    \A t \in Tasks :
        /\ sched[t].started <= 1
        /\ sched[t].pc \in {"sent", "nil"} =>
              /\ sched[t].started = 1
              /\ Cardinality(sched[t].by) = 1
              /\ \/ sched[t].finished # "no"
                 \/ \E w \in sched[t].by :
                        workers[w].pc = "exec" /\ workers[w].task = t
        /\ sched[t].pc \notin {"sent", "nil"} =>
              /\ sched[t].started = 0
              /\ sched[t].by = {}
              /\ sched[t].finished = "no"

\* One call returned nil and its task has run; another call, made before the
\* close, returned ErrWorkerPoolFreed.
C2_Witness ==
    \E t1, t2 \in Tasks :
        /\ sched[t1].pc = "nil" /\ sched[t1].finished = "returned"
        /\ sched[t2].pc = "freed" /\ ~sched[t2].quitAtCall

\* C3: once Free has returned, no worker is live and p.active holds no token.
C3_FreeReturnedDrained ==
    freePc[1] = "returned" => Live = {} /\ active = 0

\* C4: a Schedule call made when quit is already closed returns
\* ErrWorkerPoolFreed (it has not returned nil) and its task is handed to no
\* worker.
C4_ClosedRejects ==
    \A t \in Tasks :
        sched[t].quitAtCall =>
            /\ sched[t].pc \in {"select", "quit", "freed"}
            /\ sched[t].started = 0
            /\ sched[t].by = {}

\* A call made after the close has returned ErrWorkerPoolFreed while a worker
\* is alive at its select.
C4_Witness ==
    \E t \in Tasks :
        /\ sched[t].quitAtCall /\ sched[t].pc = "freed"
        /\ WorkersAt({"select"}) # {}

\* C5: a Schedule call made after Free has returned returns
\* ErrWorkerPoolFreed and its task never runs.
C5_FreedRejects ==
    \A t \in Tasks :
        sched[t].freedAtCall =>
            /\ sched[t].pc \in {"select", "quit", "freed"}
            /\ sched[t].finished = "no"
            /\ \A w \in Workers : workers[w].task # t

\* A call made after Free returned has returned ErrWorkerPoolFreed while a
\* worker that run started after the close is alive.
C5_Witness ==
    \E t \in Tasks :
        /\ sched[t].freedAtCall /\ sched[t].pc = "freed"
        /\ \E w \in Live : workers[w].late

\* C6: a Schedule call made after a task has panicked with quit open is
\* eventually accepted and its task runs to its end, unless quit is closed.
C6_SelfHealing ==
    \A t \in Tasks :
        (sched[t].afterFault /\ sched[t].pc \in {"select", "parked"})
            ~> ((sched[t].pc = "nil" /\ sched[t].finished # "no") \/ quit)

\* Capacity 1: the only worker has ended by a panic, and a task scheduled
\* after that has run to its end with quit open.
C6_Witness ==
    /\ capArg = 1
    /\ ~quit
    /\ \E t \in Tasks :
        /\ sched[t].afterFault
        /\ sched[t].pc = "nil"
        /\ sched[t].finished = "returned"

\* C7: with pre-allocation and a capacity argument C in 0..1000, when New
\* returns exactly C workers exist and exactly C tokens are held.
C7_PreAllocExact ==
    (newPc = "returned" /\ pool.preAlloc /\ capArg \in 0..maxCapacity) =>
        (Len(workers) = capArg /\ active = capArg)

\* C8: New always returns: as long as it has not returned, the program can
\* take a step.
C8_NewReturns ==
    newPc = "returned" \/ ENABLED Next

\* C9: a task that a worker has received and that has not ended is being run
\* by that worker (the worker has not observed quit, released its token or
\* reported completion), and Free has not returned.
C9_NotInterrupted ==
    \A t \in Tasks :
        (sched[t].started > 0 /\ sched[t].finished = "no") =>
            /\ \A w \in sched[t].by :
                   workers[w].pc = "exec" /\ workers[w].task = t
            /\ freePc[1] # "returned"

\* Free has closed quit and waits while a worker is running a task.
C9_Witness ==
    /\ quit
    /\ freePc[1] = "parked"
    /\ WorkersAt({"exec"}) # {}

\* C10: a call of Free that has closed quit eventually returns.
C10_FreeReturns ==
    (freePc[1] \in {"wait", "passed", "parked", "woken"})
        ~> (freePc[1] = "returned")

\* C11: with a capacity argument of at least 1 and no pre-allocation, every
\* Schedule call that waits at its select is eventually accepted (it returns
\* nil) and its task runs to its end, unless quit is closed; the calls may
\* outnumber the workers.
C11_AllAccepted ==
    \A t \in Tasks :
        (capArg >= 1 /\ ~pool.preAlloc
            /\ sched[t].pc \in {"select", "parked"})
            ~> ((sched[t].pc = "nil" /\ sched[t].finished # "no") \/ quit)

\* Capacity 1 and more calls than workers: every call was made before the
\* first task ended, every call returned nil and every task has returned,
\* with quit open.
C11_Witness ==
    /\ capArg = 1
    /\ NTasks > capArg
    /\ ~quit
    /\ Len(workers) = 1
    /\ \A t \in Tasks :
        sched[t].pc = "nil" /\ sched[t].finished = "returned"

\* C12: once quit is closed no new worker is spawned: no worker's newWorker
\* call runs with quit already closed.
C12_NoSpawnAfterQuit ==
    \A w \in Workers : ~workers[w].late

\* C13: Free is idempotent: a second call of Free, after the first one or
\* concurrent with it, raises no fault.
C13_FreeIdempotent ==
    \A f \in FreeCallers : freePc[f] # "closepanic"

\* C14: fault isolation.  Every step of a worker whose task panicked leaves
\* every other worker, the calls waiting on the task channel, quit and the
\* dispatcher's counter as they are.  The panic itself touches neither
\* p.active nor the WaitGroup, and the task's Schedule call is then at one of
\* the places pcs; the recovery takes exactly one element out of p.active,
\* which a dispatcher blocked on the full channel replaces with its own and
\* nothing else of the dispatcher changes; the exit decrements the WaitGroup
\* by one; the worker makes no step after that.
C14_FaultStep(w, pcs) ==
    LET a == workers[w]
        b == workers'[w]
    IN  (b.fault /\ a.pc # b.pc) =>
            /\ Len(workers') = Len(workers)
            /\ \A v \in Workers \ {w} : workers'[v] = workers[v]
            /\ quit' = quit
            /\ id' = id
            /\ \A t \in Tasks : sched'[t].pc = sched[t].pc
            /\ CASE a.pc = "exec" ->
                        /\ b.pc = "recover"
                        /\ sched[a.task].pc \in pcs
                        /\ active' = active /\ wg' = wg /\ runPc' = runPc
                 [] a.pc = "recover" ->
                        /\ b.pc = "done"
                        /\ wg' = wg
                        /\ \/ active' = active - 1 /\ runPc' = runPc
                           \/ /\ runPc = "parked" /\ runPc' = "spawn"
                              /\ active' = active
                 [] a.pc = "done" ->
                        /\ b.pc = "exited"
                        /\ wg' = wg - 1
                        /\ active' = active /\ runPc' = runPc
                 [] OTHER -> FALSE

\* C14, as stated: when the task panics its Schedule call has already
\* returned nil.
C14_FaultIsolationReturned ==
    [][\A w \in Workers : C14_FaultStep(w, {"nil"})]_vars

\* C14, amended: when the task panics the send of its Schedule call is done;
\* the call has returned nil or is about to, and nothing else can happen to
\* it.
C14_FaultIsolation ==
    [][\A w \in Workers : C14_FaultStep(w, {"sent", "nil"})]_vars

\* A worker has exited after its task panicked, with quit open, while the
\* Schedule call of that task has not yet returned and the other worker of
\* the pool is still running its task.
C14_Witness ==
    /\ ~quit
    /\ Len(workers) = 2
    /\ \E w \in Workers, v \in Workers, t \in Tasks :
        /\ workers[w].fault /\ workers[w].pc = "exited"
        /\ w \in sched[t].by /\ sched[t].pc = "sent"
        /\ ~workers[v].fault /\ workers[v].pc = "exec"

\* C15, as stated: in every reachable state the number of live workers
\* equals the number of elements of p.active.
C15_LiveEqualsTokens ==
    Cardinality(Live) = active

\* C15, amended: the elements of p.active are one per worker that has not yet
\* received from p.active, plus one while run has sent its element and not
\* yet called newWorker, minus one while the pre-allocation loop has called
\* newWorker and not yet sent the element.
C15_TokenAccounting ==
    active = Cardinality(WorkersAt({"select", "parked", "exec", "quit",
                                    "recover"}))
             + (IF runPc = "spawn" THEN 1 ELSE 0)
             - (IF newPc = "send" THEN 1 ELSE 0)

\* A worker has ended after a panic and run holds the element for its
\* replacement, not yet spawned: the live workers and the elements differ.
C15_Witness ==
    /\ ~quit
    /\ runPc = "spawn"
    /\ \E w \in Workers : workers[w].fault /\ workers[w].pc = "exited"
    /\ Cardinality(Live) # active

\* C16: worker ids increase in spawn order and are never reused: of two
\* workers, the one spawned later has the larger id.
C16_IdsIncrease ==
    \A v \in Workers, w \in Workers :
        v < w => workers[v].id < workers[w].id

\* C17: no worker receives two or more tasks after quit is closed.
C17_AtMostOneAfterQuit ==
    \A w \in Workers :
        Cardinality({t \in Tasks : w \in sched[t].by /\ sched[t].lateRecv})
            <= 1

\* The race of the claim has been run: quit is closed, a worker that had
\* served a task has gone through its select again and ended, having taken
\* no second task, and a call made with quit open was turned away.
C17_Witness ==
    /\ quit
    /\ \E w \in Workers, t \in Tasks, u \in Tasks :
        /\ w \in sched[t].by /\ sched[t].finished = "returned"
        /\ workers[w].pc = "exited" /\ ~workers[w].late
        /\ sched[u].pc = "freed" /\ ~sched[u].quitAtCall
    /\ \A w \in Workers :
        Cardinality({t \in Tasks : w \in sched[t].by /\ sched[t].lateRecv})
            <= 1

\* C18: a worker's receive from p.active never blocks: whenever a worker is
\* at that receive, after it saw quit closed or in the recovery of a panic,
\* p.active holds at least one element.
C18_ReleaseNeverBlocks ==
    \A w \in Workers :
        workers[w].pc \in {"quit", "recover"} => active >= 1

\* Two pre-allocated workers have gone through the receive, one in the
\* recovery of a panic and one after it saw quit closed.
C18_Witness ==
    /\ pool.preAlloc
    /\ \E w \in Workers, v \in Workers :
        /\ workers[w].id <= pool.capacity /\ workers[v].id <= pool.capacity
        /\ workers[w].fault /\ workers[w].pc \in {"done", "exited"}
        /\ ~workers[v].fault /\ workers[v].pc \in {"done", "exited"}

\* C19: once quit is closed the pool comes to rest and stays at rest: run
\* has returned, every worker ever spawned has ended, p.active is empty and
\* the WaitGroup is at zero; and every Schedule call waiting at its select
\* returns.
C19_Quiescent ==
    /\ runPc = "done"
    /\ Live = {}
    /\ active = 0
    /\ wg = 0

C19_EventualQuiescence ==
    /\ quit ~> [](C19_Quiescent)
    /\ \A t \in Tasks :
        (quit /\ sched[t].pc \in {"select", "parked"})
            ~> (sched[t].pc \in {"nil", "freed"})

\* C20: New(0) without pre-allocation is a pool that runs nothing.  p.active
\* is unbuffered and stays empty, run never sends and never spawns, no worker
\* exists at any time, no Schedule call returns nil and none returns before
\* quit is closed; once quit is closed every waiting call returns
\* ErrWorkerPoolFreed, and Free returns with no worker ever spawned.
C20_ZeroPool ==
    capArg = 0 /\ optsArg = <<>>

C20_RunsNothing ==
    /\ activeCap = 0
    /\ active = 0
    /\ id = 0
    /\ runPc # "spawn"
    /\ workers = <<>>
    /\ wg = 0
    /\ \A t \in Tasks :
        /\ sched[t].pc # "nil"
        /\ sched[t].started = 0
        /\ sched[t].pc = "freed" => quit

C20_ZeroCapacity ==
    /\ [](C20_ZeroPool => C20_RunsNothing)
    /\ \A t \in Tasks :
        (C20_ZeroPool /\ quit /\ sched[t].pc \in {"select", "parked"})
            ~> (sched[t].pc = "freed")
    /\ (C20_ZeroPool /\ freePc[1] = "wait")
            ~> (freePc[1] = "returned" /\ workers = <<>>)

\* New(0): every call waited with quit open, each was turned away by the
\* close, run has returned and Free has returned; no worker was spawned.
C20_Witness ==
    /\ C20_ZeroPool
    /\ newPc = "returned"
    /\ runPc = "done"
    /\ freePc[1] = "returned"
    /\ workers = <<>>
    /\ \A t \in Tasks : sched[t].pc = "freed" /\ ~sched[t].quitAtCall

=============================================================================
